---------------------------- MODULE Spec2Model ----------------------------
(***************************************************************************)
(* A model of the YouTube Video Downloader: the helpers of utils.py, the   *)
(* YouTubeDownloader class of downloader.py and the Tkinter App of main.py *)
(* with its worker threads and its queue of after(0) callbacks.            *)
(*                                                                         *)
(* Python strings are sequences of one-character strings.  The pytube      *)
(* library is not part of the repository: what                             *)
(* it returns (whether YouTube(url) raises, the title and the streams of a *)
(* video, whether a transfer fails, the chunks it reports) is chosen       *)
(* nondeterministically from small sets.  A handle's title and streams are *)
(* fixed when YouTube(url) returns.                                        *)
(***************************************************************************)
EXTENDS Integers, Sequences, FiniteSets, TLC

VARIABLES
    \* sanitize_filename applied to a name, and again to its own output
    san_name, san_max_len, san_outs,
    \* one progress notification: _pytube_progress, then App.on_progress
    pg,
    \* one YouTubeDownloader instance driven directly by a caller
    api_d, api_last, api_fs, api_call, api_ever_loaded,
    \* the App: its attributes, its widgets, what the user has been shown
    _downloader, _streams, _selected_itag, _total_bytes,
    widgets, streams_cmb, status, progress, busy, last_dialog,
    \* the YouTubeDownloader objects the App has created, by reference
    heap,
    \* the worker threads started so far and the queued after(0) callbacks
    threads, after_queue

sanVars == <<san_name, san_max_len, san_outs>>

apiVars == <<api_d, api_last, api_fs, api_call, api_ever_loaded>>

appVars ==
    <<_downloader, _streams, _selected_itag, _total_bytes, widgets,
      streams_cmb, status, progress, busy, last_dialog, heap, threads,
      after_queue>>

vars ==
    <<san_name, san_max_len, san_outs, pg, api_d, api_last, api_fs, api_call,
      api_ever_loaded, _downloader, _streams, _selected_itag, _total_bytes,
      widgets, streams_cmb, status, progress, busy, last_dialog, heap,
      threads, after_queue>>

\* Python's None, where an object is expected
None == [none |-> TRUE]

\* Python's None, where a str or a tuple is expected
NoSeq == <<"None">>

\* Python's None, where an int is expected (Optional[int])
NoInt == -1

\* no exception was raised
NoExc == "ok"

Max(a, b) == IF a >= b THEN a ELSE b

Min(a, b) == IF a <= b THEN a ELSE b

(***************************************************************************)
(* Bounds of the model.                                                    *)
(***************************************************************************)
\* longest name handed to sanitize_filename
MaxNameLen == 6

\* largest max_len handed to sanitize_filename
MaxMaxLen == 6

\* how often sanitize_filename is applied in a row
MaxApply == 3

\* largest filesize and largest count of bytes a transfer reports
MaxBytes == 4

\* how many fetches and downloads the user starts in one run of the App
MaxOps == 2

(***************************************************************************)
(* Python string primitives.                                               *)
(***************************************************************************)
\* s[:k] of Python: a negative k counts from the end
PySliceTo(s, k) ==
    LET n == IF k >= 0 THEN Min(k, Len(s)) ELSE Max(Len(s) + k, 0)
    IN  SubSeq(s, 1, n)

RECURSIVE LStrip(_, _)
LStrip(s, chars) ==
    IF s # <<>> /\ Head(s) \in chars THEN LStrip(Tail(s), chars) ELSE s

RECURSIVE RStrip(_, _)
RStrip(s, chars) ==
    IF s # <<>> /\ s[Len(s)] \in chars
    THEN RStrip(SubSeq(s, 1, Len(s) - 1), chars)
    ELSE s

\* str.strip(chars)
Strip(s, chars) == RStrip(LStrip(s, chars), chars)

\* the characters str.strip() removes when called without argument
Whitespace == {" ", "\t", "\n", "\r"}

StartsWith(s, p) == Len(s) >= Len(p) /\ SubSeq(s, 1, Len(p)) = p

(***************************************************************************)
(* utils.py                                                                *)
(***************************************************************************)
ascii_letters ==
    {"a", "b", "c", "d", "e", "f", "g", "h", "i", "j", "k", "l", "m",
     "n", "o", "p", "q", "r", "s", "t", "u", "v", "w", "x", "y", "z",
     "A", "B", "C", "D", "E", "F", "G", "H", "I", "J", "K", "L", "M",
     "N", "O", "P", "Q", "R", "S", "T", "U", "V", "W", "X", "Y", "Z"}

digits == {"0", "1", "2", "3", "4", "5", "6", "7", "8", "9"}

\* allowed = f"-_.() {string.ascii_letters}{string.digits}"
allowed == {"-", "_", ".", "(", ")", " "} \cup ascii_letters \cup digits

\* the fallback "video"
FallbackName == <<"v", "i", "d", "e", "o">>

Ellipsis == <<".", ".", ".">>

\* "".join(c if c in allowed else "_" for c in name).strip(" ._")
Cleaned(name) ==
    Strip([i \in 1..Len(name) |-> IF name[i] \in allowed THEN name[i] ELSE "_"],
          {" ", ".", "_"})

\* a slip in the truncation: the ellipsis is forgotten when the name is cut
sanitize_filename_noellipsis(name, max_len) ==
    LET cleaned == Cleaned(name)
        cut == IF Len(cleaned) > max_len
               THEN PySliceTo(cleaned, max_len - 3)
               ELSE cleaned
    IN  IF cut = <<>> THEN FallbackName ELSE cut

sanitize_filename(name, max_len) ==
    LET cleaned == Cleaned(name)
        cut == IF Len(cleaned) > max_len
               THEN PySliceTo(cleaned, max_len - 3) \o Ellipsis
               ELSE cleaned
    IN  IF cut = <<>> THEN FallbackName ELSE cut

\* the default of the max_len parameter
DefaultMaxLen == 180

Http == <<"h", "t", "t", "p", ":", "/", "/">>

Https == <<"h", "t", "t", "p", "s", ":", "/", "/">>

Www == <<"w", "w", "w", ".">>

\* youtube.com/watch?v=
WatchHost ==
    <<"y", "o", "u", "t", "u", "b", "e", ".", "c", "o", "m", "/",
      "w", "a", "t", "c", "h", "?", "v", "=">>

\* youtu.be/
ShortHost == <<"y", "o", "u", "t", "u", ".", "b", "e", "/">>

\* [A-Za-z0-9_\-]
IdChars == ascii_letters \cup digits \cup {"_", "-"}

\* the {6,} of the video id
MinIdLen == 6

\* _YT_URL_RE.match(s): anchored at the start, not at the end
YT_URL_RE_match(s) ==
    \E scheme \in {<<>>, Http, Https}, www \in {<<>>, Www},
       host \in {WatchHost, ShortHost} :
        LET p == scheme \o www \o host
        IN  /\ StartsWith(s, p)
            /\ Len(s) >= Len(p) + MinIdLen
            /\ \A i \in 1..MinIdLen : s[Len(p) + i] \in IdChars

\* every url of the program is a str: the isinstance test never fails
is_probable_youtube_url(url) == YT_URL_RE_match(Strip(url, Whitespace))

(***************************************************************************)
(* What the pytube library holds: the videos YouTube(url) can return.      *)
(***************************************************************************)
LibStream(itag, type, quality, rank, progressive, filesize, fname) ==
    [itag |-> itag, type |-> type,
     mime_type |-> IF type = "video" THEN "video/mp4" ELSE "audio/mp4",
     quality |-> quality, rank |-> rank, is_progressive |-> progressive,
     filesize |-> filesize, default_filename |-> fname]

\* the stub of the end-to-end scenario: "Demo", 720p video 1, 128kbps audio 2
VideoDemo ==
    [title |-> <<"D", "e", "m", "o">>,
     streams |->
        <<LibStream(2, "audio", "128kbps", 128, FALSE, NoInt,
                    <<"D", "e", "m", "o", ".", "m", "p", "4">>),
          LibStream(1, "video", "720p", 720, TRUE, 2,
                    <<"D", "e", "m", "o", ".", "m", "p", "4">>)>>]

\* a title with a path separator; the library names the file after its own rule
VideoSlash ==
    [title |-> <<"a", "/", "b">>,
     streams |->
        <<LibStream(3, "video", "480p", 480, FALSE, 0,
                    <<"a", "b", ".", "m", "p", "4">>)>>]

\* a video without streams
VideoEmpty == [title |-> <<"x">>, streams |-> <<>>]

Videos == {VideoDemo, VideoSlash, VideoEmpty}

\* the itags a caller may ask for: those of the videos and one of no video
Itags == 1..4

\* YouTube(url, ...): raises, or returns a handle
LibInitOutcomes == {None} \cup Videos

\* sorted(streams, key=rank), stable
RECURSIVE SortedByRank(_)
SortedByRank(ss) ==
    IF ss = <<>> THEN <<>>
    ELSE LET rest == SortedByRank(SubSeq(ss, 1, Len(ss) - 1))
             x == ss[Len(ss)]
             k == Cardinality({i \in 1..Len(rest) : rest[i].rank <= x.rank})
         IN  SubSeq(rest, 1, k) \o <<x>> \o SubSeq(rest, k + 1, Len(rest))

Reversed(ss) == [i \in 1..Len(ss) |-> ss[Len(ss) + 1 - i]]

\* streams.filter(type=...).order_by(...).desc()
LibFilterDesc(streams, type) ==
    Reversed(SortedByRank(SelectSeq(streams, LAMBDA s : s.type = type)))

\* streams.get_by_itag(itag): the stream, or None
LibGetByItag(streams, itag) ==
    LET hits == SelectSeq(streams, LAMBDA s : s.itag = itag)
    IN  IF hits = <<>> THEN None ELSE hits[1]

\* stream.download(output_path, filename, filename_prefix): the path written
LibFilePath(stream, args) ==
    [dir |-> args.output_path,
     base |-> args.filename_prefix \o
              (IF args.filename = NoSeq THEN stream.default_filename
                                       ELSE args.filename)]

(***************************************************************************)
(* downloader.py: class YouTubeDownloader.  An instance is a record; each  *)
(* method is an operator from the instance and the library's answer to the *)
(* new instance, the exception raised (NoExc when none) and the result.    *)
(***************************************************************************)
\* __init__
YouTubeDownloader(url, on_progress) ==
    [url |-> Strip(url, Whitespace), on_progress |-> on_progress, _yt |-> None]

ExcInit == "RuntimeError: Failed to initialize YouTube object"

ExcNotLoaded == "RuntimeError: YouTube object not loaded. Call load() first."

ExcNoStream == "ValueError: No stream found for itag"

ExcPytube == "RuntimeError: pytube error"

ExcUnexpected == "RuntimeError: Unexpected download error"

\* stream.filesize or 0
FilesizeOr0(stream) ==
    IF stream.filesize = NoInt \/ stream.filesize = 0 THEN 0 ELSE stream.filesize

\* a slip: the remaining bytes are reported as the received ones
_pytube_progress_remaining(d, stream, bytes_remaining) ==
    LET total == FilesizeOr0(stream)
        received == Max(bytes_remaining, 0)
    IN  IF d.on_progress # "None" THEN <<received, total>> ELSE NoSeq

\* _pytube_progress: the (received, total) handed to on_progress, NoSeq when
\* no callback is registered
_pytube_progress(d, stream, bytes_remaining) ==
    LET total == FilesizeOr0(stream)
        received == Max(total - bytes_remaining, 0)
    IN  IF d.on_progress # "None" THEN <<received, total>> ELSE NoSeq

\* a slip: the except clause swallows the library's exception
load_swallowing(d, lib) ==
    IF lib = None
    THEN [d |-> d, exc |-> NoExc]
    ELSE [d |-> [d EXCEPT !._yt = lib], exc |-> NoExc]

\* load(): lib is what YouTube(self.url, ...) does, None when it raises
load(d, lib) ==
    IF lib = None
    THEN [d |-> d, exc |-> ExcInit]
    ELSE [d |-> [d EXCEPT !._yt = lib], exc |-> NoExc]

\* `not self._yt`
NotLoaded(d) == d._yt = None

\* the title property
title(d) ==
    IF NotLoaded(d) THEN [exc |-> ExcNotLoaded, ret |-> NoSeq]
    ELSE [exc |-> NoExc, ret |-> d._yt.title]

\* the StreamInfo of a video stream
VideoInfo(s) ==
    [itag |-> s.itag, type |-> "video", mime_type |-> s.mime_type,
     resolution_or_abr |-> s.quality, progressive |-> s.is_progressive,
     filesize |-> s.filesize,
     pretty |-> <<"VIDEO", s.quality,
                  IF s.is_progressive THEN "progressive" ELSE "adaptive",
                  s.mime_type>>]

\* the StreamInfo of an audio stream
AudioInfo(s) ==
    [itag |-> s.itag, type |-> "audio", mime_type |-> s.mime_type,
     resolution_or_abr |-> s.quality, progressive |-> FALSE,
     filesize |-> s.filesize,
     pretty |-> <<"AUDIO", s.quality, s.mime_type>>]

available_streams(d) ==
    IF NotLoaded(d) THEN [exc |-> ExcNotLoaded, ret |-> <<>>]
    ELSE LET video == LibFilterDesc(d._yt.streams, "video")
             audio == LibFilterDesc(d._yt.streams, "audio")
         IN  [exc |-> NoExc,
              ret |-> [i \in 1..Len(video) |-> VideoInfo(video[i])] \o
                      [i \in 1..Len(audio) |-> AudioInfo(audio[i])]]

\* what download() has done when it fails early
DownloadRaised(exc, looked_up) ==
    [exc |-> exc, looked_up |-> looked_up, stream |-> None,
     safe_title |-> NoSeq, transfer |-> None]

\* what download() has done when it reaches stream.download(...)
DownloadTransfers(d, stream, output_dir, filename) ==
    [exc |-> NoExc, looked_up |-> TRUE, stream |-> stream,
     safe_title |-> sanitize_filename(d._yt.title, DefaultMaxLen),
     transfer |-> [output_path |-> output_dir, filename |-> filename,
                   filename_prefix |-> <<>>]]

\* a slip: the streams are looked up before the handle is tested
download_begin_lookup_first(d, itag, output_dir) ==
    LET stream == IF NotLoaded(d) THEN None
                  ELSE LibGetByItag(d._yt.streams, itag)
    IN  IF stream = None THEN DownloadRaised(ExcNoStream, TRUE)
        ELSE DownloadTransfers(d, stream, output_dir, NoSeq)

\* a slip: an unknown itag falls back to the first stream
download_begin_fallback(d, itag, output_dir) ==
    IF NotLoaded(d) THEN DownloadRaised(ExcNotLoaded, FALSE)
    ELSE LET found == LibGetByItag(d._yt.streams, itag)
             stream == IF found = None /\ d._yt.streams # <<>>
                       THEN d._yt.streams[1] ELSE found
         IN  IF stream = None THEN DownloadRaised(ExcNoStream, TRUE)
             ELSE DownloadTransfers(d, stream, output_dir, NoSeq)

\* download(), up to the call of stream.download(output_path=output_dir,
\* filename_prefix=""): safe_title is computed and not handed to the library
download_begin(d, itag, output_dir) ==
    IF NotLoaded(d) THEN DownloadRaised(ExcNotLoaded, FALSE)
    ELSE LET stream == LibGetByItag(d._yt.streams, itag)
         IN  IF stream = None THEN DownloadRaised(ExcNoStream, TRUE)
             ELSE DownloadTransfers(d, stream, output_dir, NoSeq)

\* how stream.download(...) can end
LibTransferOutcomes == {"ok", "PytubeError", "Exception"}

\* download(), from the return of stream.download(...) on
download_end(begun, lib) ==
    IF lib = "PytubeError" THEN [exc |-> ExcPytube, ret |-> None]
    ELSE IF lib = "Exception" THEN [exc |-> ExcUnexpected, ret |-> None]
    ELSE [exc |-> NoExc, ret |-> LibFilePath(begun.stream, begun.transfer)]

(***************************************************************************)
(* main.py: App.on_progress                                                *)
(***************************************************************************)
\* int((bytes_received / total_bytes) * 100) in floating point: the exact
\* floor, or one less when the exact quotient is a whole number that the
\* two roundings may land just below (int((29 / 100) * 100) is 28)
FloatPercents(bytes_received, total_bytes) ==
    LET exact == (bytes_received * 100) \div total_bytes
        whole == (bytes_received * 100) % total_bytes = 0
    IN  {exact} \cup
        (IF whole /\ 0 < bytes_received /\ bytes_received < total_bytes
         THEN {exact - 1} ELSE {})

\* percent = 0 if total_bytes <= 0 else int((bytes_received / total_bytes) * 100)
on_progress_percents(bytes_received, total_bytes) ==
    IF total_bytes <= 0 THEN {0}
    ELSE FloatPercents(bytes_received, total_bytes)

(***************************************************************************)
(* The variables of the parts a specification does not use stay idle.      *)
(***************************************************************************)
SanIdle == san_name = <<>> /\ san_max_len = 0 /\ san_outs = <<>>

PgIdle == pg = None

ApiIdle ==
    /\ api_d = None
    /\ api_last = None
    /\ api_fs = None
    /\ api_call = None
    /\ api_ever_loaded = FALSE

AppIdle ==
    /\ _downloader = NoInt /\ _streams = <<>> /\ _selected_itag = NoInt
    /\ _total_bytes = 0 /\ widgets = None /\ streams_cmb = None
    /\ status = "" /\ progress = 0 /\ busy = FALSE /\ last_dialog = ""
    /\ heap = <<>> /\ threads = <<>> /\ after_queue = <<>>

(***************************************************************************)
(* SpecSanitize: sanitize_filename on every short san_name over a letter, a    *)
(* stripped character and a forbidden one, applied up to MaxApply times.   *)
(***************************************************************************)
NameChars == {"a", ".", "/"}

Names == UNION {[1..n -> NameChars] : n \in 0..MaxNameLen}

SanInit ==
    /\ san_name \in Names
    /\ san_max_len \in 0..MaxMaxLen
    /\ san_outs = <<>>
    /\ PgIdle /\ ApiIdle /\ AppIdle

SanApply ==
    /\ Len(san_outs) < MaxApply
    /\ san_outs' = Append(san_outs, sanitize_filename(
                   IF san_outs = <<>> THEN san_name ELSE san_outs[Len(san_outs)], san_max_len))
    /\ UNCHANGED <<san_name, san_max_len, pg>>
    /\ UNCHANGED apiVars
    /\ UNCHANGED appVars

SanNext == SanApply

SpecSanitize == SanInit /\ [][SanNext]_vars

(***************************************************************************)
(* SpecProgress: one notification of the library, through                  *)
(* _pytube_progress to App.on_progress.                                    *)
(***************************************************************************)
PgInit ==
    /\ pg \in [on_progress : {"None", "on_progress"},
               filesize : {NoInt} \cup 0..MaxBytes,
               bytes_remaining : (0 - MaxBytes)..(MaxBytes + 1),
               event : {NoSeq}, percent : {NoInt}, stage : {"start"}]
    /\ SanIdle /\ ApiIdle /\ AppIdle

\* the library calls on_progress_callback(stream, chunk, bytes_remaining)
PgPytubeProgress ==
    /\ pg.stage = "start"
    /\ pg' = [pg EXCEPT
                !.event = _pytube_progress([on_progress |-> pg.on_progress],
                                           [filesize |-> pg.filesize],
                                           pg.bytes_remaining),
                !.stage = "called"]
    /\ UNCHANGED sanVars
    /\ UNCHANGED apiVars
    /\ UNCHANGED appVars

\* App.on_progress(bytes_received, total_bytes)
PgOnProgress ==
    /\ pg.stage = "called"
    /\ pg.event # NoSeq
    /\ \E percent \in on_progress_percents(pg.event[1], pg.event[2]) :
          pg' = [pg EXCEPT !.percent = percent, !.stage = "shown"]
    /\ UNCHANGED sanVars
    /\ UNCHANGED apiVars
    /\ UNCHANGED appVars

PgNext == PgPytubeProgress \/ PgOnProgress

SpecProgress == PgInit /\ [][PgNext]_vars

(***************************************************************************)
(* Claims about sanitize_filename (SpecSanitize).                          *)
(***************************************************************************)
\* the first application cut the cleaned name and appended "..."
Truncated == Len(Cleaned(san_name)) > san_max_len

\* C6 as stated: sanitize is idempotent on its own output when the cleaned
\* string does not exceed maxLength, and when the first application did
\* truncate and append "...", re-applying sanitize returns the truncated
\* output unchanged.
C6_IdempotentAndStable ==
    Len(san_outs) >= 2 =>
        /\ ~Truncated => san_outs[2] = san_outs[1]
        /\ Truncated => san_outs[2] = san_outs[1]

\* C6 amended: sanitize applied twice equals sanitize applied once whenever
\* the first application did not truncate and its output is no longer than
\* maxLength; when the first application truncated, its output ends in "..."
\* and is not stable: the second application strips the ellipsis and returns
\* a different, shorter-or-fallback string, which for maxLength >= 5 (the
\* length of the fallback "video") is a fixed point.
C6_IdempotentUnlessTruncated ==
    /\ (Len(san_outs) >= 2 /\ ~Truncated /\ Len(san_outs[1]) <= san_max_len)
          => san_outs[2] = san_outs[1]
    /\ (Len(san_outs) >= 2 /\ Truncated)
          => /\ SubSeq(san_outs[1], Len(san_outs[1]) - 2, Len(san_outs[1]))
                   = Ellipsis
             /\ san_outs[2] # san_outs[1]
    /\ (Len(san_outs) >= 3 /\ Truncated /\ san_max_len >= Len(FallbackName))
          => san_outs[3] = san_outs[2]

\* a name longer than a maxLength >= 5 was sanitized three times in a row
C6_Witness ==
    /\ Len(san_outs) = 3
    /\ Truncated
    /\ san_max_len >= Len(FallbackName)
    /\ san_outs[2] # FallbackName

(***************************************************************************)
(* Claims about the progress callbacks (SpecProgress).                     *)
(***************************************************************************)
\* the stream's size is unknown: absent or zero
UnknownSize == pg.filesize = NoInt \/ pg.filesize = 0

\* C7 as stated: for every notification of a download whose size is unknown
\* the callback reports totalBytes = 0 with bytesReceived = 0 and the caller
\* shows 0%; for a known total and 0 <= bytes_remaining <= total,
\* bytesReceived lies in 0..totalBytes and the percentage in 0..100.
C7_UnknownReportsZeroZero ==
    /\ (pg.stage # "start" /\ pg.event # NoSeq /\ UnknownSize)
          => pg.event = <<0, 0>>
    /\ (pg.stage = "shown" /\ UnknownSize) => pg.percent = 0
    /\ (pg.stage # "start" /\ pg.event # NoSeq /\ ~UnknownSize
          /\ 0 <= pg.bytes_remaining /\ pg.bytes_remaining <= pg.filesize)
          => pg.event[1] \in 0..pg.event[2]
    /\ (pg.stage = "shown" /\ ~UnknownSize
          /\ 0 <= pg.bytes_remaining /\ pg.bytes_remaining <= pg.filesize)
          => pg.percent \in 0..100

\* C7 amended: for an unknown size the callback reports totalBytes = 0 and
\* the caller shows 0% without dividing; bytesReceived is 0 when
\* bytes_remaining >= 0 and is -bytes_remaining (the bytes read so far) when
\* the library counts bytes_remaining down from 0.  For a known total and
\* 0 <= bytes_remaining <= total, bytesReceived = total - bytes_remaining lies
\* in 0..totalBytes and the percentage in 0..100.
C7_UnknownReportsZeroTotal ==
    /\ (pg.stage # "start" /\ pg.event # NoSeq /\ UnknownSize)
          => /\ pg.event[2] = 0
             /\ pg.bytes_remaining >= 0 => pg.event[1] = 0
             /\ pg.bytes_remaining < 0 => pg.event[1] = 0 - pg.bytes_remaining
    /\ (pg.stage = "shown" /\ UnknownSize) => pg.percent = 0
    /\ (pg.stage # "start" /\ pg.event # NoSeq /\ ~UnknownSize
          /\ 0 <= pg.bytes_remaining /\ pg.bytes_remaining <= pg.filesize)
          => /\ pg.event[2] = pg.filesize
             /\ pg.event[1] = pg.filesize - pg.bytes_remaining
             /\ pg.event[1] \in 0..pg.event[2]
    /\ (pg.stage = "shown" /\ ~UnknownSize
          /\ 0 <= pg.bytes_remaining /\ pg.bytes_remaining <= pg.filesize)
          => pg.percent \in 0..100

\* a notification for a stream of unknown size, after some bytes were read,
\* has been shown by the caller
C7_Witness ==
    /\ pg.stage = "shown"
    /\ UnknownSize
    /\ pg.bytes_remaining < 0
    /\ pg.event[1] > 0

(***************************************************************************)
(* SpecApi: one YouTubeDownloader instance driven directly by a caller, in *)
(* any order of load(), title, available_streams() and download().         *)
(***************************************************************************)
ExampleHost ==
    <<"e", "x", "a", "m", "p", "l", "e", ".", "c", "o", "m", "/",
      "w", "a", "t", "c", "h", "?", "v", "=">>

\* https://www.youtube.com/watch?v=abcdef
UrlWatch == Https \o Www \o WatchHost \o <<"a", "b", "c", "d", "e", "f">>

\* " youtu.be/ab-_12 ": accepted once stripped
UrlShortPadded ==
    <<" ">> \o ShortHost \o <<"a", "b", "-", "_", "1", "2">> \o <<" ">>

\* https://example.com/watch?v=abcdef: another host
UrlExample == Https \o ExampleHost \o <<"a", "b", "c", "d", "e", "f">>

\* youtu.be/abc: the id is too short
UrlShortId == ShortHost \o <<"a", "b", "c">>

\* not-a-url
UrlNotAUrl == <<"n", "o", "t", "-", "a", "-", "u", "r", "l">>

Urls == {UrlWatch, UrlShortPadded, UrlExample, UrlShortId, UrlNotAUrl}

\* the directories a caller names
OutDirs == {<<"o", "u", "t">>, <<"d", "l">>}

\* nothing was called yet
NoCall ==
    [op |-> "none", exc |-> NoExc, ret |-> None, itag |-> NoInt,
     loaded_before |-> FALSE, known_itag |-> FALSE, looked_up |-> FALSE,
     safe_title |-> NoSeq, transfer |-> None, d_before |-> None,
     fs_before |-> None, lib_ok |-> FALSE, event |-> NoSeq]

ApiInit ==
    /\ api_d \in {YouTubeDownloader(u, cb) :
                    u \in Urls, cb \in {"None", "on_progress"}}
    /\ api_last = NoCall
    /\ api_fs = [dirs |-> {}, files |-> {}]
    /\ api_call = None
    /\ api_ever_loaded = FALSE
    /\ SanIdle /\ PgIdle /\ AppIdle

\* what every call records of the state it started in
Called(op) ==
    [NoCall EXCEPT !.op = op, !.loaded_before = ~NotLoaded(api_d),
                   !.d_before = api_d, !.fs_before = api_fs]

\* d.load()
ApiLoad ==
    /\ api_call = None
    /\ \E lib \in LibInitOutcomes :
          LET r == load(api_d, lib)
          IN  /\ api_d' = r.d
              /\ api_last' = [Called("load") EXCEPT !.exc = r.exc,
                                                    !.lib_ok = (lib # None)]
              /\ api_ever_loaded' = (api_ever_loaded \/ r.exc = NoExc)
    /\ UNCHANGED <<api_fs, api_call, pg>>
    /\ UNCHANGED sanVars
    /\ UNCHANGED appVars

\* d.title
ApiTitle ==
    /\ api_call = None
    /\ LET r == title(api_d)
       IN  api_last' = [Called("title") EXCEPT !.exc = r.exc, !.ret = r.ret]
    /\ UNCHANGED <<api_d, api_fs, api_call, api_ever_loaded, pg>>
    /\ UNCHANGED sanVars
    /\ UNCHANGED appVars

\* d.available_streams()
ApiAvailableStreams ==
    /\ api_call = None
    /\ LET r == available_streams(api_d)
       IN  api_last' = [Called("available_streams") EXCEPT
                            !.exc = r.exc, !.ret = r.ret]
    /\ UNCHANGED <<api_d, api_fs, api_call, api_ever_loaded, pg>>
    /\ UNCHANGED sanVars
    /\ UNCHANGED appVars

\* d.download(itag, output_dir), until it raises early or the library starts
\* the transfer
ApiDownload ==
    /\ api_call = None
    /\ \E itag \in Itags, output_dir \in OutDirs :
          LET b == download_begin(api_d, itag, output_dir)
              call == [Called("download") EXCEPT
                          !.itag = itag,
                          !.known_itag =
                              (/\ ~NotLoaded(api_d)
                               /\ LibGetByItag(api_d._yt.streams, itag) # None),
                          !.exc = b.exc, !.looked_up = b.looked_up,
                          !.safe_title = b.safe_title,
                          !.transfer = b.transfer]
          IN  IF b.exc # NoExc
              THEN /\ api_last' = call
                   /\ api_call' = None
              ELSE /\ api_last' = [call EXCEPT !.op = "downloading"]
                   /\ api_call' = [begun |-> b,
                                   bytes_remaining |-> FilesizeOr0(b.stream)]
    /\ UNCHANGED <<api_d, api_fs, api_ever_loaded, pg>>
    /\ UNCHANGED sanVars
    /\ UNCHANGED appVars

\* the library reads a chunk and calls on_progress_callback: bytes_remaining
\* starts at the filesize and is counted down by the chunk's length
ApiChunk ==
    /\ api_call # None
    /\ \E n \in 1..2 :
          LET left == api_call.bytes_remaining - n
          IN  /\ left >= 0 - MaxBytes
              /\ FilesizeOr0(api_call.begun.stream) > 0 => left >= 0
              /\ api_call' = [api_call EXCEPT !.bytes_remaining = left]
              /\ api_last' = [api_last EXCEPT !.event =
                     _pytube_progress(api_d, api_call.begun.stream, left)]
    /\ UNCHANGED <<api_d, api_fs, api_ever_loaded, pg>>
    /\ UNCHANGED sanVars
    /\ UNCHANGED appVars

\* what the library has written when stream.download(...) ends: the directory
\* and the file, or on a failure possibly nothing
LibWrites(fs, path, wrote) ==
    IF wrote
    THEN [dirs |-> fs.dirs \cup {path.dir}, files |-> fs.files \cup {path}]
    ELSE fs

\* stream.download(...) returns or raises, and download() with it
ApiTransferEnd ==
    /\ api_call # None
    /\ \E lib \in LibTransferOutcomes, wrote \in BOOLEAN :
          LET r == download_end(api_call.begun, lib)
              path == LibFilePath(api_call.begun.stream,
                                  api_call.begun.transfer)
          IN  /\ lib = "ok" => wrote
              /\ api_fs' = LibWrites(api_fs, path, wrote)
              /\ api_last' = [api_last EXCEPT !.op = "download",
                                              !.exc = r.exc, !.ret = r.ret]
    /\ api_call' = None
    /\ UNCHANGED <<api_d, api_ever_loaded, pg>>
    /\ UNCHANGED sanVars
    /\ UNCHANGED appVars

ApiNext ==
    \/ ApiLoad
    \/ ApiTitle
    \/ ApiAvailableStreams
    \/ ApiDownload
    \/ ApiChunk
    \/ ApiTransferEnd

SpecApi == ApiInit /\ [][ApiNext]_vars

(***************************************************************************)
(* Claims about the YouTubeDownloader instance (SpecApi).                  *)
(***************************************************************************)
EmptyFs == [dirs |-> {}, files |-> {}]

\* C1: as long as no load() has succeeded on the instance (none was called,
\* or every one failed), download(itag, output_dir) fails with the not-loaded
\* error for every itag and directory, before any stream lookup, sanitizing or
\* transfer: nothing is written and no transfer is ever in flight; and
\* available_streams() fails with the same error.
C1_DownloadBeforeLoadFails ==
    ~api_ever_loaded =>
        /\ api_call = None
        /\ api_last.op # "downloading"
        /\ api_fs = EmptyFs
        /\ api_last.op = "download" =>
              /\ api_last.exc = ExcNotLoaded
              /\ ~api_last.looked_up
              /\ api_last.safe_title = NoSeq
              /\ api_last.transfer = None
              /\ api_last.event = NoSeq
        /\ api_last.op = "available_streams" => api_last.exc = ExcNotLoaded

\* download() was called on an instance on which no load() has succeeded
C1_Witness ==
    /\ ~api_ever_loaded
    /\ api_last.op = "download"
    /\ api_last.exc = ExcNotLoaded
    /\ api_last.itag = 1

\* C2: on a loaded instance, download(itag, output_dir) with an itag that
\* matches no stream of the handle fails with the unknown-stream error and
\* writes nothing: no directory is created, no transfer is started, and the
\* instance stays loaded with the same handle.
C2_UnknownStreamWritesNothing ==
    /\ api_last.op = "downloading" => api_last.known_itag
    /\ (api_last.op = "download" /\ api_last.loaded_before
          /\ ~api_last.known_itag)
          => /\ api_last.exc = ExcNoStream
             /\ api_last.transfer = None
             /\ api_call = None
             /\ api_fs = api_last.fs_before
             /\ api_d = api_last.d_before
             /\ ~NotLoaded(api_d)

\* download() was called with an unknown itag on a handle that has streams
C2_Witness ==
    /\ api_last.op = "download"
    /\ api_last.loaded_before
    /\ ~api_last.known_itag
    /\ api_d._yt.streams # <<>>
    /\ api_last.exc = ExcNoStream

\* C3 as stated: load() on an instance whose url does not pass
\* is_probable_youtube_url fails, does no I/O and leaves the instance without
\* a handle, also when the caller has not checked the url before.
C3_LoadRejectsInvalidUrl ==
    (api_last.op = "load" /\ ~is_probable_youtube_url(api_d.url))
        => /\ api_last.exc # NoExc
           /\ api_fs = api_last.fs_before
           /\ NotLoaded(api_d)

\* C3 amended: load() makes no check of the url itself.  It fails, with the
\* initialization error, exactly when the backing library rejects the url,
\* and then writes nothing and leaves the handle as it was (none, when no
\* load had succeeded); a url that does not pass the heuristic and that the
\* library accepts is loaded.  The heuristic is the caller's check
\* (App.on_fetch_streams) before it constructs the instance.
C3_LoadFailsOnlyWhenLibraryRejects ==
    api_last.op = "load" =>
        /\ api_last.exc \in {NoExc, ExcInit}
        /\ api_last.exc = ExcInit <=> ~api_last.lib_ok
        /\ api_fs = api_last.fs_before
        /\ api_last.exc = ExcInit => api_d = api_last.d_before
        /\ api_last.exc = NoExc => ~NotLoaded(api_d)

\* load() was called for a url that does not pass the heuristic, and the
\* library rejected it
C3_Witness ==
    /\ api_last.op = "load"
    /\ ~is_probable_youtube_url(api_d.url)
    /\ api_last.exc = ExcInit
    /\ NotLoaded(api_d)

\* C4 as stated: for every successful download the file name handed to the
\* transfer, and the base name of the returned path, are derived from
\* sanitize_filename(title) of the loaded handle, not from the library's own
\* naming.
C4_NameFromSanitizedTitle ==
    (api_last.op = "download" /\ api_last.exc = NoExc)
        => /\ api_last.transfer.filename = api_last.safe_title
           /\ StartsWith(api_last.ret.base, api_last.safe_title)

(***************************************************************************)
(* main.py: class App.  The main thread runs the handlers of the user's    *)
(* clicks and the queued after(0) callbacks, one at a time and in the      *)
(* order they were queued; each worker thread runs one task() a statement  *)
(* at a time.  A message box is shown and dismissed within its handler.    *)
(* The url entry and the output folder hold whatever the user typed while  *)
(* they were enabled, so a click reads any url and any folder.             *)
(***************************************************************************)
NORMAL == "normal"

DISABLED == "disabled"

\* what the user types in the output folder entry
OutTexts == OutDirs \cup {<<>>, <<" ">>}

\* set_busy(busy, status): the state of the six widgets
BusyWidgets(state) ==
    [fetch_btn |-> state, browse_btn |-> state, download_btn |-> state,
     url_entry |-> state, streams_cmb |-> state, out_entry |-> state]

\* set_busy(busy, status): every widget is disabled or made normal
set_busy(is_busy) == BusyWidgets(IF is_busy THEN DISABLED ELSE NORMAL)

\* on_select_stream(): the selection and the Download button that follow
\* from the combobox's current index and _streams
on_select_stream(idx, streams) ==
    IF 0 <= idx /\ idx < Len(streams)
    THEN [itag |-> streams[idx + 1].itag, download_btn |-> NORMAL]
    ELSE [itag |-> NoInt, download_btn |-> DISABLED]

\* a worker thread, as threading.Thread(target=task).start() leaves it
NewThread(kind, url, out_dir) ==
    [kind |-> kind, pc |-> "start", url |-> url, out_dir |-> out_dir,
     ex |-> NoExc, ex_bound |-> FALSE, options |-> <<>>, begun |-> None,
     bytes_remaining |-> 0, path |-> None, result |-> "",
     shown |-> <<>>, swallowed |-> FALSE, cleared |-> FALSE]

\* App.__init__ and _build_ui
AppInit ==
    /\ _downloader = NoInt
    /\ _streams = <<>>
    /\ _selected_itag = NoInt
    /\ _total_bytes = 0
    /\ widgets = [BusyWidgets(NORMAL) EXCEPT !.streams_cmb = "readonly",
                                             !.download_btn = DISABLED]
    /\ streams_cmb = [values |-> <<>>, current |-> -1]
    /\ status = "Ready."
    /\ progress = 0
    /\ busy = FALSE
    /\ last_dialog = ""
    /\ heap = <<>>
    /\ threads = <<>>
    /\ after_queue = <<>>
    /\ SanIdle /\ PgIdle /\ ApiIdle

Idle == UNCHANGED <<san_name, san_max_len, san_outs, pg, api_d, api_last,
                    api_fs, api_call, api_ever_loaded>>

\* on_fetch_streams with a url the validator rejects: a message box
ClickFetchInvalid ==
    /\ widgets.fetch_btn = NORMAL
    /\ \E url \in Urls :
          /\ ~is_probable_youtube_url(Strip(url, Whitespace))
          /\ last_dialog' = "Invalid URL"
    /\ UNCHANGED <<_downloader, _streams, _selected_itag, _total_bytes,
                   widgets, streams_cmb, status, progress, busy, heap,
                   threads, after_queue>>
    /\ Idle

\* on_fetch_streams with a url the validator accepts: the App goes busy,
\* clears the combobox and starts the fetch task
ClickFetch ==
    /\ widgets.fetch_btn = NORMAL
    /\ Len(threads) < MaxOps
    /\ \E url \in Urls :
          /\ is_probable_youtube_url(Strip(url, Whitespace))
          /\ threads' = Append(threads,
                           NewThread("fetch", Strip(url, Whitespace), <<>>))
    /\ widgets' = [set_busy(TRUE) EXCEPT !.download_btn = DISABLED]
    /\ busy' = TRUE
    /\ status' = "Loading video info"
    /\ progress' = 0
    /\ streams_cmb' = [values |-> <<>>, current |-> -1]
    /\ UNCHANGED <<_downloader, _streams, _selected_itag, _total_bytes,
                   last_dialog, heap, after_queue>>
    /\ Idle

\* on_download without a downloader, a selection or a folder: a message box
ClickDownloadRefused ==
    /\ widgets.download_btn = NORMAL
    /\ \E out \in OutTexts :
          \/ /\ (_downloader = NoInt \/ _selected_itag = NoInt)
             /\ last_dialog' = "Selection Required"
          \/ /\ _downloader # NoInt /\ _selected_itag # NoInt
             /\ Strip(out, Whitespace) = <<>>
             /\ last_dialog' = "Output Folder"
    /\ UNCHANGED <<_downloader, _streams, _selected_itag, _total_bytes,
                   widgets, streams_cmb, status, progress, busy, heap,
                   threads, after_queue>>
    /\ Idle

\* on_download: the App goes busy and starts the download task
ClickDownload ==
    /\ widgets.download_btn = NORMAL
    /\ Len(threads) < MaxOps
    /\ _downloader # NoInt /\ _selected_itag # NoInt
    /\ \E out \in OutTexts :
          /\ Strip(out, Whitespace) # <<>>
          /\ threads' = Append(threads,
                           NewThread("download", <<>>, Strip(out, Whitespace)))
    /\ widgets' = set_busy(TRUE)
    /\ busy' = TRUE
    /\ status' = "Downloading"
    /\ progress' = 0
    /\ UNCHANGED <<_downloader, _streams, _selected_itag, _total_bytes,
                   streams_cmb, last_dialog, heap, after_queue>>
    /\ Idle

\* the user picks an entry of the combobox: <<ComboboxSelected>>
SelectStream ==
    /\ widgets.streams_cmb # DISABLED
    /\ \E idx \in 0..(Len(streams_cmb.values) - 1) :
          LET sel == on_select_stream(idx, _streams)
          IN  /\ streams_cmb' = [streams_cmb EXCEPT !.current = idx]
              /\ _selected_itag' = sel.itag
              /\ widgets' = [widgets EXCEPT !.download_btn = sel.download_btn]
    /\ UNCHANGED <<_downloader, _streams, _total_bytes, status, progress,
                   busy, last_dialog, heap, threads, after_queue>>
    /\ Idle

(***************************************************************************)
(* The queued after(0) callbacks, run by the main thread in queue order.   *)
(***************************************************************************)
Callback(cb, t, options) == [cb |-> cb, t |-> t, options |-> options]

Surfaced(t, what) ==
    [threads EXCEPT ![t].shown = Append(threads[t].shown, what)]

\* lambda: self._populate_streams(options)
RunPopulate ==
    /\ after_queue # <<>>
    /\ Head(after_queue).cb = "populate"
    /\ LET cb == Head(after_queue)
       IN  IF cb.options = <<>>
           THEN /\ status' = "No streams found."
                /\ threads' = Surfaced(cb.t, "no streams")
                /\ UNCHANGED <<streams_cmb, _selected_itag, widgets>>
           ELSE LET sel == on_select_stream(0, _streams)
                IN  /\ streams_cmb' = [values |-> cb.options, current |-> 0]
                    /\ _selected_itag' = sel.itag
                    /\ widgets' = [widgets EXCEPT
                                      !.download_btn = sel.download_btn]
                    /\ threads' = Surfaced(cb.t, "populated")
                    /\ UNCHANGED status
    /\ after_queue' = Tail(after_queue)
    /\ UNCHANGED <<_downloader, _streams, _total_bytes, progress, busy,
                   last_dialog, heap>>
    /\ Idle

\* lambda: messagebox.showerror(..., str(ex)): ex is the task's variable,
\* unbound once the task has left its except block; the lambda then raises
\* NameError and Tk reports the callback's exception on stderr
RunShowError ==
    /\ after_queue # <<>>
    /\ Head(after_queue).cb = "showerror"
    /\ LET cb == Head(after_queue)
       IN  IF threads[cb.t].ex_bound
           THEN /\ last_dialog' = (IF threads[cb.t].kind = "fetch"
                                   THEN "Fetch Error" ELSE "Download Error")
                /\ threads' = Surfaced(cb.t, "error")
           ELSE /\ threads' = [threads EXCEPT ![cb.t].swallowed = TRUE]
                /\ UNCHANGED last_dialog
    /\ after_queue' = Tail(after_queue)
    /\ UNCHANGED <<_downloader, _streams, _selected_itag, _total_bytes,
                   widgets, streams_cmb, status, progress, busy, heap>>
    /\ Idle

\* lambda: messagebox.showinfo("Completed", ...)
RunShowInfo ==
    /\ after_queue # <<>>
    /\ Head(after_queue).cb = "showinfo"
    /\ last_dialog' = "Completed"
    /\ threads' = Surfaced(Head(after_queue).t, "completed")
    /\ after_queue' = Tail(after_queue)
    /\ UNCHANGED <<_downloader, _streams, _selected_itag, _total_bytes,
                   widgets, streams_cmb, status, progress, busy, heap>>
    /\ Idle

\* lambda: self.set_busy(False, "Ready.")
RunSetBusy ==
    /\ after_queue # <<>>
    /\ Head(after_queue).cb = "set_busy"
    /\ widgets' = set_busy(FALSE)
    /\ status' = "Ready."
    /\ busy' = FALSE
    /\ threads' = [threads EXCEPT ![Head(after_queue).t].cleared = TRUE]
    /\ after_queue' = Tail(after_queue)
    /\ UNCHANGED <<_downloader, _streams, _selected_itag, _total_bytes,
                   streams_cmb, progress, last_dialog, heap>>
    /\ Idle

(***************************************************************************)
(* on_fetch_streams.task and on_download.task, a statement at a time.      *)
(***************************************************************************)
\* self._downloader = YouTubeDownloader(url, on_progress=self.on_progress)
FetchNew ==
    \E t \in 1..Len(threads) :
        /\ threads[t].kind = "fetch" /\ threads[t].pc = "start"
        /\ heap' = Append(heap, YouTubeDownloader(threads[t].url,
                                                  "on_progress"))
        /\ _downloader' = Len(heap) + 1
        /\ threads' = [threads EXCEPT ![t].pc = "load"]
        /\ UNCHANGED <<_streams, _selected_itag, _total_bytes, widgets,
                       streams_cmb, status, progress, busy, last_dialog,
                       after_queue>>
        /\ Idle

\* self._downloader.load()
FetchLoad ==
    \E t \in 1..Len(threads) :
        /\ threads[t].kind = "fetch" /\ threads[t].pc = "load"
        /\ \E lib \in LibInitOutcomes :
              LET r == load(heap[_downloader], lib)
              IN  /\ heap' = [heap EXCEPT ![_downloader] = r.d]
                  /\ threads' = [threads EXCEPT
                        ![t].pc = IF r.exc = NoExc THEN "streams"
                                                   ELSE "except",
                        ![t].ex = r.exc,
                        ![t].ex_bound = (r.exc # NoExc)]
        /\ UNCHANGED <<_downloader, _streams, _selected_itag, _total_bytes,
                       widgets, streams_cmb, status, progress, busy,
                       last_dialog, after_queue>>
        /\ Idle

\* self._streams = self._downloader.available_streams()
\* options = [s.pretty for s in self._streams]
FetchStreams ==
    \E t \in 1..Len(threads) :
        /\ threads[t].kind = "fetch" /\ threads[t].pc = "streams"
        /\ LET r == available_streams(heap[_downloader])
           IN  IF r.exc # NoExc
               THEN /\ threads' = [threads EXCEPT ![t].pc = "except",
                                                  ![t].ex = r.exc,
                                                  ![t].ex_bound = TRUE]
                    /\ UNCHANGED _streams
               ELSE /\ _streams' = r.ret
                    /\ threads' = [threads EXCEPT
                          ![t].pc = "post",
                          ![t].options = [i \in 1..Len(r.ret) |->
                                             r.ret[i].pretty],
                          ![t].result = IF r.ret = <<>> THEN "empty"
                                                        ELSE "catalog"]
        /\ UNCHANGED <<_downloader, _selected_itag, _total_bytes, widgets,
                       streams_cmb, status, progress, busy, last_dialog,
                       heap, after_queue>>
        /\ Idle

\* self.after(0, lambda: self._populate_streams(options))
FetchPost ==
    \E t \in 1..Len(threads) :
        /\ threads[t].kind = "fetch" /\ threads[t].pc = "post"
        /\ after_queue' = Append(after_queue,
                                 Callback("populate", t, threads[t].options))
        /\ threads' = [threads EXCEPT ![t].pc = "finally"]
        /\ UNCHANGED <<_downloader, _streams, _selected_itag, _total_bytes,
                       widgets, streams_cmb, status, progress, busy,
                       last_dialog, heap>>
        /\ Idle

\* path = self._downloader.download(self._selected_itag, out_dir), until it
\* raises early or the library starts the transfer
DownloadCall ==
    \E t \in 1..Len(threads) :
        /\ threads[t].kind = "download" /\ threads[t].pc = "start"
        /\ LET d == heap[_downloader]
               b == download_begin(d, _selected_itag, threads[t].out_dir)
           IN  threads' = [threads EXCEPT
                  ![t].pc = IF b.exc = NoExc THEN "transfer" ELSE "except",
                  ![t].ex = b.exc,
                  ![t].ex_bound = (b.exc # NoExc),
                  ![t].begun = b,
                  ![t].bytes_remaining =
                        IF b.exc = NoExc THEN FilesizeOr0(b.stream) ELSE 0]
        /\ UNCHANGED <<_downloader, _streams, _selected_itag, _total_bytes,
                       widgets, streams_cmb, status, progress, busy,
                       last_dialog, heap, after_queue>>
        /\ Idle

\* the library reads a chunk and calls _pytube_progress, which calls
\* App.on_progress on the worker thread
DownloadChunk ==
    \E t \in 1..Len(threads) :
        /\ threads[t].kind = "download" /\ threads[t].pc = "transfer"
        /\ \E n \in 1..2 :
              LET stream == threads[t].begun.stream
                  left == threads[t].bytes_remaining - n
                  event == _pytube_progress([on_progress |-> "on_progress"],
                                            stream, left)
              IN  /\ left >= 0 - MaxBytes
                  /\ FilesizeOr0(stream) > 0 => left >= 0
                  /\ threads' = [threads EXCEPT ![t].bytes_remaining = left]
                  /\ _total_bytes' = event[2]
                  /\ \E percent \in on_progress_percents(event[1], event[2]) :
                        progress' = percent
        /\ UNCHANGED <<_downloader, _streams, _selected_itag, widgets,
                       streams_cmb, status, busy, last_dialog, heap,
                       after_queue>>
        /\ Idle

\* stream.download(...) returns or raises, and download() with it
DownloadTransferEnd ==
    \E t \in 1..Len(threads) :
        /\ threads[t].kind = "download" /\ threads[t].pc = "transfer"
        /\ \E lib \in LibTransferOutcomes :
              LET r == download_end(threads[t].begun, lib)
              IN  threads' = [threads EXCEPT
                     ![t].pc = IF r.exc = NoExc THEN "post" ELSE "except",
                     ![t].ex = r.exc,
                     ![t].ex_bound = (r.exc # NoExc),
                     ![t].path = r.ret,
                     ![t].result = IF r.exc = NoExc THEN "file" ELSE ""]
        /\ UNCHANGED <<_downloader, _streams, _selected_itag, _total_bytes,
                       widgets, streams_cmb, status, progress, busy,
                       last_dialog, heap, after_queue>>
        /\ Idle

\* self.after(0, lambda: messagebox.showinfo("Completed", ...))
DownloadPost ==
    \E t \in 1..Len(threads) :
        /\ threads[t].kind = "download" /\ threads[t].pc = "post"
        /\ after_queue' = Append(after_queue, Callback("showinfo", t, <<>>))
        /\ threads' = [threads EXCEPT ![t].pc = "finally"]
        /\ UNCHANGED <<_downloader, _streams, _selected_itag, _total_bytes,
                       widgets, streams_cmb, status, progress, busy,
                       last_dialog, heap>>
        /\ Idle

\* except Exception as ex: self.after(0, lambda: messagebox.showerror(...))
TaskExcept ==
    \E t \in 1..Len(threads) :
        /\ threads[t].pc = "except"
        /\ after_queue' = Append(after_queue, Callback("showerror", t, <<>>))
        /\ threads' = [threads EXCEPT ![t].pc = "finally"]
        /\ UNCHANGED <<_downloader, _streams, _selected_itag, _total_bytes,
                       widgets, streams_cmb, status, progress, busy,
                       last_dialog, heap>>
        /\ Idle

\* leaving the except block unbinds ex; then
\* finally: self.after(0, lambda: self.set_busy(False, "Ready."))
TaskFinally ==
    \E t \in 1..Len(threads) :
        /\ threads[t].pc = "finally"
        /\ after_queue' = Append(after_queue, Callback("set_busy", t, <<>>))
        /\ threads' = [threads EXCEPT ![t].pc = "done",
                                      ![t].ex_bound = FALSE]
        /\ UNCHANGED <<_downloader, _streams, _selected_itag, _total_bytes,
                       widgets, streams_cmb, status, progress, busy,
                       last_dialog, heap>>
        /\ Idle

UserNext ==
    \/ ClickFetchInvalid
    \/ ClickFetch
    \/ ClickDownloadRefused
    \/ ClickDownload
    \/ SelectStream

LoopNext == RunPopulate \/ RunShowError \/ RunShowInfo \/ RunSetBusy

WorkerNext ==
    \/ FetchNew
    \/ FetchLoad
    \/ FetchStreams
    \/ FetchPost
    \/ DownloadCall
    \/ DownloadChunk
    \/ DownloadTransferEnd
    \/ DownloadPost
    \/ TaskExcept
    \/ TaskFinally

Next == UserNext \/ LoopNext \/ WorkerNext

Spec == AppInit /\ [][Next]_vars

\* the event loop runs every queued callback and every started thread runs
\* to its end; the user is not obliged to click
SpecFair == Spec /\ WF_vars(LoopNext) /\ WF_vars(WorkerNext)

(***************************************************************************)
(* Claims about the App (Spec, SpecFair).                                  *)
(***************************************************************************)
\* the worker operations that are outstanding: started, and not yet finished
\* with their set_busy(False, "Ready.") callback processed
Outstanding == {t \in 1..Len(threads) : ~threads[t].cleared}

\* C5 as stated: under every interleaving of clicks, worker steps and queued
\* callbacks at most one worker operation (a fetch or a download) is
\* outstanding: none is started while an earlier one has not finished and had
\* its set_busy(False) callback processed.
C5_AtMostOneOutstanding == Cardinality(Outstanding) <= 1

\* C8 as stated: when a load succeeded and the catalog is empty, then after
\* the fetch has completed (all its callbacks processed, nothing else started)
\* the status still shows "No streams found." and not the "Ready." of a failed
\* load, no error was notified and no stream is selected.
C8_EmptyCatalogStaysVisible ==
    \A t \in 1..Len(threads) :
        (/\ t = Len(threads)
         /\ Outstanding = {}
         /\ threads[t].kind = "fetch"
         /\ threads[t].result = "empty")
            => /\ status = "No streams found."
               /\ threads[t].shown = <<"no streams">>
               /\ _selected_itag = NoInt

\* C9 as stated: whenever the Download button is enabled and the App is not
\* busy, the current _downloader is loaded and _selected_itag is the itag of
\* an entry of _streams, the catalog of that same _downloader.
C9_EnabledDownloadIsValid ==
    (widgets.download_btn = NORMAL /\ ~busy)
        => /\ _downloader # NoInt
           /\ ~NotLoaded(heap[_downloader])
           /\ _streams = available_streams(heap[_downloader]).ret
           /\ \E i \in 1..Len(_streams) : _streams[i].itag = _selected_itag

\* C10 as stated: every fetch or download the App starts ends the busy state
\* (under fair scheduling its set_busy(False, "Ready.") is processed), and
\* before that exactly one outcome of it was surfaced: the populated catalog
\* or "no streams" for a fetch, the Completed box for a download, or one
\* error box on a failure.
C10_EndsBusyWithOneOutcome ==
    /\ [](\A t \in 1..Len(threads) :
            threads[t].cleared => Len(threads[t].shown) = 1)
    /\ \A t \in 1..MaxOps :
          (Len(threads) >= t) ~> (Len(threads) >= t /\ threads[t].cleared)

\* the liveness half of C10 alone, which holds under SpecFair
OperationsEnd ==
    \A t \in 1..MaxOps :
        (Len(threads) >= t) ~> (Len(threads) >= t /\ threads[t].cleared)

=============================================================================
